---- MODULE Spec2Model ----
(***************************************************************************)
(* The LiveRecognition component (src/src/components/LiveRecognition.tsx)  *)
(* as a state machine: the React state and refs are the variables, every   *)
(* event handler, timer callback and promise continuation is one action.   *)
(*                                                                         *)
(* Rendering: a state update made in a handler is committed before the     *)
(* next event is dispatched, so a handler called from the UI always reads  *)
(* the current state.  What stays stale is what the code captures itself:  *)
(* the processFrame callback handed to setInterval, and the closure of a   *)
(* processFrame call suspended at its await.  Both are kept as records of  *)
(* the values captured (a "closure").                                      *)
(***************************************************************************)
EXTENDS Integers, Sequences, FiniteSets, TLC

\* ------------------------------------------------------------------ bounds
MaxStreams == 2     \* getUserMedia calls made in one run
MaxTimers == 2      \* setInterval calls made in one run
MaxCalls == 3       \* detection calls started in one run
MaxFaces == 1       \* faces one detection call returns
MaxTime == 1000     \* the clock stops here (ms)
MaxSockets == 3     \* WebSockets created in one run
MaxCameraCalls == 2 \* FaceRegistration: getUserMedia calls made in one run
MaxInserts == 2     \* FaceRegistration: inserts registerFace makes in one run
MaxSends == 2       \* ChatInterface: messages sent in one run
MaxFetches == 3     \* ChatInterface: fetchRegistrationData calls made in one run
MaxClock == 12      \* ChatInterface: Date.now() stops here (ms)
MountTime == 10     \* ChatInterface: Date.now() at the mount, far from the id '1'

\* ------------------------------------------------------- program constants
TickPeriod == 500           \* setInterval(processFrame, 500)
WindowMs == 1000            \* timeDiff >= 1000
Threshold == 60             \* mockDistance < 0.6, in hundredths
HistoryCap == 100           \* .slice(0, 100)
Unknown == "Unknown Person"

\* The galleries a load can return, and the values of Math.random() * 0.8 (in
\* hundredths) the runs distinguish: two below the threshold, the threshold
\* itself and one above.
Galleries == {<<>>, <<"Alice">>, <<"Bob", "Alice">>}
Distances == {20, 40, 60, 70}

VARIABLES
    isCameraActive,      \* useState(false)
    isRecognitionActive, \* useState(false)
    isModelsLoaded,      \* useState(false)
    modelsPending,       \* loadModels() has not settled yet
    registeredFaces,     \* useState([]): the gallery, a sequence of names
    facesPending,        \* loadRegisteredFaces() has not settled yet
    streamRef,           \* 0 is null, otherwise the id of the stream held
    streams,             \* stream id -> "none" | "pending" | "live" | "stopped" | "failed"
    streamSeq,           \* getUserMedia calls made so far
    intervalRef,         \* 0 is null, otherwise the id of a timer
    timers,              \* the armed timers: records [id, fn], fn the closure captured
    timerSeq,            \* setInterval calls made so far
    inflight,            \* processFrame calls suspended at the await of detection
    callSeq,             \* detection calls started so far
    recognitionResults,  \* useState([])
    statistics,          \* useState({detectedFaces, recognitionAccuracy, frameRate, totalRecognitions})
    recognitionHistory,  \* useState([])
    frameCount,          \* frameCountRef
    lastFrameTime,       \* lastFrameTimeRef
    now,                 \* Date.now(), relative to the mount
    sockets,             \* socket id -> "none" | "connecting" | "open" | "closing" | "closed"
    wsRef,               \* 0 is null, otherwise the id of the socket held
    socketSeq,           \* WebSockets created so far
    reconnects,          \* setTimeout(connectWebSocket, 3000) calls still to fire
    wsStatus,            \* useState('disconnected'): "disconnected" | "connecting" | "connected"
    mounted,             \* the component is mounted: its effect cleanup has not run
    wsSent,              \* messages handed to wsRef.current.send
    toast,               \* title of the most recent toast, "" when none
    pass,                \* the matching pass completed last: gallery used, faces, draws
    last,                \* the handler or continuation that ran last
    faceRegistration,    \* the FaceRegistration component: its state, refs and pending calls
    chatInterface,       \* the ChatInterface component: its state and pending calls
    currentTab,          \* Index: useState('registration')
    keydown              \* Index: the keydown event dispatched last, NoKey when none

vars == <<isCameraActive, isRecognitionActive, isModelsLoaded, modelsPending,
          registeredFaces, facesPending, streamRef, streams, streamSeq,
          intervalRef, timers, timerSeq, inflight, callSeq, recognitionResults,
          statistics, recognitionHistory, frameCount, lastFrameTime, now,
          sockets, wsRef, socketSeq, reconnects, wsStatus, mounted, wsSent,
          toast, pass, last, faceRegistration, chatInterface, currentTab,
          keydown>>

cameraVars == <<isCameraActive, streamRef, streams, streamSeq>>
timerVars == <<intervalRef, timers, timerSeq>>
loadVars == <<isModelsLoaded, modelsPending, registeredFaces, facesPending>>
resultVars == <<recognitionResults, statistics, recognitionHistory, frameCount,
                lastFrameTime, wsSent, pass>>
wsVars == <<sockets, wsRef, socketSeq, reconnects, wsStatus>>
pageVars == <<faceRegistration, chatInterface, currentTab, keydown>>

\* ------------------------------------------------------------------ helpers
\* A ratio a / b of two numbers, kept exact as the pair of both.
Ratio(a, b) == <<a, b>>

\* The values processFrame closes over (its useCallback dependencies).
Closure == [isModelsLoaded |-> isModelsLoaded,
            isRecognitionActive |-> isRecognitionActive,
            registeredFaces |-> registeredFaces]

TakeOldest(s, n) == IF Len(s) <= n THEN s ELSE SubSeq(s, Len(s) - n + 1, Len(s))

\* s.slice(0, n)
Take(s, n) == IF Len(s) <= n THEN s ELSE SubSeq(s, 1, n)

RECURSIVE CountMatched(_)
CountMatched(rs) ==
    IF rs = <<>> THEN 0
    ELSE (IF Head(rs).name # Unknown THEN 1 ELSE 0) + CountMatched(Tail(rs))

\* No matching pass has completed yet (n is the number of faces of a pass).
NoPass == [faces |-> <<>>, n |-> -1, dist |-> <<>>]

\* wsRef.current?.readyState === WebSocket.OPEN
WsOpen == wsRef # 0 /\ sockets[wsRef] = "open"

\* The first socket, the one the mount effect created, in state st, with what
\* its handlers have done by then: onopen set 'connected'; onclose set
\* 'disconnected' and armed the reconnect timer.
SocketIs(st) ==
    /\ sockets = [k \in 1..MaxSockets |-> IF k = 1 THEN st ELSE "none"]
    /\ wsRef = 1
    /\ socketSeq = 1
    /\ reconnects = (IF st = "closed" THEN 1 ELSE 0)
    /\ wsStatus = (IF st = "open" THEN "connected"
                   ELSE IF st = "closed" THEN "disconnected" ELSE "connecting")

\* --------------------------------------------------- the other components
\* FaceRegistration, ChatInterface (src/unnamed/part_001) and Index
\* (src/src/components/NavigationBreadcrumbs.tsx) are each one record of the
\* component's state, refs and pending calls, so that the fields keep the
\* names they have in the source. Text is a sequence of characters.
Null == "null"
Image == "data:image/jpeg"
Texts == {<<>>, <<" ">>, <<"a">>, <<"b">>, <<" ", "a", " ">>}

RECURSIVE trimStart(_)
trimStart(s) == IF s # <<>> /\ Head(s) = " " THEN trimStart(Tail(s)) ELSE s

RECURSIVE trimEnd(_)
trimEnd(s) ==
    IF s # <<>> /\ s[Len(s)] = " " THEN trimEnd(SubSeq(s, 1, Len(s) - 1)) ELSE s

\* String.prototype.trim
trim(s) == trimEnd(trimStart(s))

\* FaceRegistration after its mount effect has run: loadModels() has set
\* isLoading and is pending, fetchRegistrations() is pending.
FaceRegistrationMount ==
    [isLoading |-> TRUE, isCameraActive |-> FALSE, faceDetected |-> FALSE,
     capturedImage |-> Null, name |-> <<>>, registrations |-> <<>>,
     modelsLoaded |-> FALSE, streamRef |-> 0,
     streams |-> [s \in 1..MaxCameraCalls |-> "none"], streamSeq |-> 0,
     modelsPending |-> TRUE, fetches |-> 1, inserts |-> {}, insertSeq |-> 0,
     db |-> <<>>]

Greeting == <<"Hello!">>

\* ChatInterface after its mount effect has run: the first
\* fetchRegistrationData() is pending and the channel is subscribed. db counts
\* the changes the table has seen; a fetch returns the table as of its start.
ChatInterfaceMount ==
    [messages |-> <<[id |-> 1, type |-> "ai", content |-> Greeting,
                     isLoading |-> FALSE]>>,
     inputMessage |-> <<>>, isTyping |-> FALSE, registrationData |-> 0,
     dataOf |-> 0, sends |-> {}, sendSeq |-> 0,
     fetches |-> {[n |-> 1, rows |-> 0]}, fetchSeq |-> 1, failed |-> {},
     db |-> 0, clock |-> MountTime]

NoKey == [key |-> "", ctrlKey |-> FALSE, metaKey |-> FALSE, shiftKey |-> FALSE]

PagesInit ==
    /\ faceRegistration = FaceRegistrationMount
    /\ chatInterface = ChatInterfaceMount
    /\ currentTab = "registration"
    /\ keydown = NoKey

\* ------------------------------------------------------------------- Init
LiveRecognitionInit ==
    /\ isCameraActive = FALSE
    /\ isRecognitionActive = FALSE
    /\ isModelsLoaded = FALSE
    /\ modelsPending = TRUE
    /\ registeredFaces = <<>>
    /\ facesPending = TRUE
    /\ streamRef = 0
    /\ streams = [s \in 1..MaxStreams |-> "none"]
    /\ streamSeq = 0
    /\ intervalRef = 0
    /\ timers = {}
    /\ timerSeq = 0
    /\ inflight = {}
    /\ callSeq = 0
    /\ recognitionResults = <<>>
    /\ statistics = [detectedFaces |-> 0, recognitionAccuracy |-> Ratio(0, 1),
                     frameRate |-> Ratio(0, 1), totalRecognitions |-> 0]
    /\ recognitionHistory = <<>>
    /\ frameCount = 0
    /\ lastFrameTime = 0
    /\ now = 0
    /\ SocketIs("connecting")
    /\ mounted = TRUE
    /\ wsSent = 0
    /\ toast = ""
    /\ pass = NoPass
    /\ last = "mount"

Init == LiveRecognitionInit /\ PagesInit

\* ------------------------------------------------------------- mount loads
loadModelsResolve ==
    /\ modelsPending
    /\ modelsPending' = FALSE
    /\ isModelsLoaded' = (IF mounted THEN TRUE ELSE isModelsLoaded)
    /\ last' = "loadModelsResolve"
    /\ UNCHANGED <<registeredFaces, facesPending, toast>>
    /\ UNCHANGED <<cameraVars, isRecognitionActive, timerVars, inflight, callSeq,
                   resultVars, now, wsVars, mounted, pageVars>>

loadModelsReject ==
    /\ modelsPending
    /\ modelsPending' = FALSE
    /\ toast' = "Model Loading Error"
    /\ last' = "loadModelsReject"
    /\ UNCHANGED <<isModelsLoaded, registeredFaces, facesPending>>
    /\ UNCHANGED <<cameraVars, isRecognitionActive, timerVars, inflight, callSeq,
                   resultVars, now, wsVars, mounted, pageVars>>

loadRegisteredFacesResolve(data) ==
    /\ facesPending
    /\ facesPending' = FALSE
    /\ registeredFaces' = (IF mounted THEN data ELSE registeredFaces)
    /\ last' = "loadRegisteredFacesResolve"
    /\ UNCHANGED <<isModelsLoaded, modelsPending, toast>>
    /\ UNCHANGED <<cameraVars, isRecognitionActive, timerVars, inflight, callSeq,
                   resultVars, now, wsVars, mounted, pageVars>>

loadRegisteredFacesRejectSilent ==
    /\ facesPending
    /\ facesPending' = FALSE
    /\ last' = "loadRegisteredFacesReject"
    /\ UNCHANGED <<isModelsLoaded, modelsPending, registeredFaces, toast>>
    /\ UNCHANGED <<cameraVars, isRecognitionActive, timerVars, inflight, callSeq,
                   resultVars, now, wsVars, mounted, pageVars>>

loadRegisteredFacesReject ==
    /\ facesPending
    /\ facesPending' = FALSE
    /\ toast' = "Database Error"
    /\ last' = "loadRegisteredFacesReject"
    /\ UNCHANGED <<isModelsLoaded, modelsPending, registeredFaces>>
    /\ UNCHANGED <<cameraVars, isRecognitionActive, timerVars, inflight, callSeq,
                   resultVars, now, wsVars, mounted, pageVars>>

\* ---------------------------------------------------------------- websocket
\* A state setter called after the unmount changes nothing.
SetWsStatus(v) == wsStatus' = (IF mounted THEN v ELSE wsStatus)

\* onopen of socket k.
wsOnOpen(k) ==
    /\ sockets[k] = "connecting"
    /\ sockets' = [sockets EXCEPT ![k] = "open"]
    /\ SetWsStatus("connected")
    /\ last' = "wsOnOpen"
    /\ UNCHANGED <<wsRef, socketSeq, reconnects>>
    /\ UNCHANGED <<cameraVars, isRecognitionActive, timerVars, loadVars, inflight,
                   callSeq, resultVars, now, toast, mounted, pageVars>>

\* onclose of socket k: the reconnect timer is armed. When the connection
\* failed, the error event comes first in the same task, and onerror sets the
\* same 'disconnected'.
wsOnClose(k) ==
    /\ sockets[k] \in {"connecting", "open", "closing"}
    /\ sockets' = [sockets EXCEPT ![k] = "closed"]
    /\ SetWsStatus("disconnected")
    /\ reconnects' = reconnects + 1
    /\ last' = "wsOnClose"
    /\ UNCHANGED <<wsRef, socketSeq>>
    /\ UNCHANGED <<cameraVars, isRecognitionActive, timerVars, loadVars, inflight,
                   callSeq, resultVars, now, toast, mounted, pageVars>>

\* The body of connectWebSocket: it returns if the socket held is open, and
\* otherwise creates a socket and holds it, whatever the state of the one it
\* held.
connectWebSocket ==
    IF WsOpen
    THEN UNCHANGED <<sockets, wsRef, socketSeq, wsStatus>>
    ELSE /\ socketSeq < MaxSockets
         /\ socketSeq' = socketSeq + 1
         /\ sockets' = [sockets EXCEPT ![socketSeq + 1] = "connecting"]
         /\ wsRef' = socketSeq + 1
         /\ SetWsStatus("connecting")

\* A reconnect timer armed by onclose fires.
ReconnectTimer ==
    /\ reconnects > 0
    /\ reconnects' = reconnects - 1
    /\ connectWebSocket
    /\ last' = "connectWebSocket"
    /\ UNCHANGED <<cameraVars, isRecognitionActive, timerVars, loadVars, inflight,
                   callSeq, resultVars, now, toast, mounted, pageVars>>

\* ------------------------------------------------------------------- camera
\* startCamera up to its await: one more getUserMedia call is outstanding.
startCamera ==
    /\ streamSeq < MaxStreams
    /\ streamSeq' = streamSeq + 1
    /\ streams' = [streams EXCEPT ![streamSeq + 1] = "pending"]
    /\ last' = "startCamera"
    /\ UNCHANGED <<isCameraActive, streamRef, isRecognitionActive, timerVars,
                   loadVars, inflight, callSeq, resultVars, now, wsVars, mounted, toast, pageVars>>

\* getUserMedia resolved with stream s: the continuation of startCamera. The
\* stream is kept only if (videoRef.current), that is while mounted.
getUserMediaResolve(s) ==
    /\ streams[s] = "pending"
    /\ streams' = [streams EXCEPT ![s] = "live"]
    /\ IF mounted
       THEN streamRef' = s /\ isCameraActive' = TRUE
       ELSE UNCHANGED <<streamRef, isCameraActive>>
    /\ last' = "getUserMediaResolve"
    /\ UNCHANGED <<streamSeq, isRecognitionActive, timerVars, loadVars, inflight,
                   callSeq, resultVars, now, wsVars, mounted, toast, pageVars>>

getUserMediaRejectSetsActive(s) ==
    /\ streams[s] = "pending"
    /\ streams' = [streams EXCEPT ![s] = "failed"]
    /\ isCameraActive' = TRUE
    /\ toast' = "Camera Error"
    /\ last' = "getUserMediaReject"
    /\ UNCHANGED <<streamRef, streamSeq, isRecognitionActive, timerVars,
                   loadVars, inflight, callSeq, resultVars, now, wsVars, mounted, pageVars>>

\* getUserMedia rejected: the catch block of startCamera.
getUserMediaReject(s) ==
    /\ streams[s] = "pending"
    /\ streams' = [streams EXCEPT ![s] = "failed"]
    /\ toast' = "Camera Error"
    /\ last' = "getUserMediaReject"
    /\ UNCHANGED <<isCameraActive, streamRef, streamSeq, isRecognitionActive,
                   timerVars, loadVars, inflight, callSeq, resultVars, now, wsVars, mounted, pageVars>>

\* A cycle outstanding when a stop is called is marked, so that its late
\* completion can be told from the others (the mark is read by no action).
MarkStopped(cycles) == {[c EXCEPT !.stopped = TRUE] : c \in cycles}

stopCameraKeepsStream ==
    /\ UNCHANGED <<streams, streamRef>>
    /\ isCameraActive' = FALSE
    /\ isRecognitionActive' = FALSE
    /\ inflight' = MarkStopped(inflight)
    /\ last' = "stopCamera"
    /\ UNCHANGED <<streamSeq, timerVars, loadVars, callSeq, resultVars, now,
                   wsVars, mounted, toast, pageVars>>

stopCameraKeepsRecognition ==
    /\ IF streamRef # 0
       THEN /\ streams' = [streams EXCEPT ![streamRef] = "stopped"]
            /\ streamRef' = 0
       ELSE UNCHANGED <<streams, streamRef>>
    /\ isCameraActive' = FALSE
    /\ inflight' = MarkStopped(inflight)
    /\ last' = "stopCamera"
    /\ UNCHANGED <<isRecognitionActive, streamSeq, timerVars, loadVars, callSeq,
                   resultVars, now, wsVars, mounted, toast, pageVars>>

stopCamera ==
    /\ IF streamRef # 0
       THEN /\ streams' = [streams EXCEPT ![streamRef] = "stopped"]
            /\ streamRef' = 0
       ELSE UNCHANGED <<streams, streamRef>>
    /\ isCameraActive' = FALSE
    /\ isRecognitionActive' = FALSE
    /\ inflight' = MarkStopped(inflight)
    /\ last' = "stopCamera"
    /\ UNCHANGED <<streamSeq, timerVars, loadVars, callSeq, resultVars, now,
                   wsVars, mounted, toast, pageVars>>

\* The camera button: onClick={isCameraActive ? stopCamera : startCamera}.
CameraButton ==
    /\ mounted
    /\ IF isCameraActive THEN stopCamera ELSE startCamera

\* -------------------------------------------------------------- processFrame
\* The guard of processFrame as the closure fn sees it; videoRef and canvasRef
\* are attached and the canvas has a 2d context for as long as the component is
\* mounted.
PassesGuard(fn) == mounted /\ fn.isModelsLoaded /\ fn.isRecognitionActive

\* A call of processFrame with closure fn, up to its await: it returns at the
\* guard, or starts a detection call and suspends.
processFrame(fn) ==
    IF ~PassesGuard(fn)
    THEN UNCHANGED <<inflight, callSeq>>
    ELSE /\ callSeq < MaxCalls
         /\ callSeq' = callSeq + 1
         /\ inflight' = inflight \cup
               {[id |-> callSeq + 1, fn |-> fn, stopped |-> FALSE]}

NoMatchTruthy == [found |-> TRUE, name |-> "", distance |-> 0]

\* let bestMatch = null
NoMatch == [found |-> FALSE, name |-> "", distance |-> 0]

RECURSIVE BestMatchInclusive(_, _, _, _)
BestMatchInclusive(faces, ds, i, best) ==
    IF i > Len(faces) THEN best
    ELSE BestMatchInclusive(faces, ds, i + 1,
             IF ds[i] <= Threshold /\ (~best.found \/ ds[i] < best.distance)
             THEN [found |-> TRUE, name |-> faces[i], distance |-> ds[i]]
             ELSE best)

\* The inner loop over registeredFaces for one detection; ds[i] is the value
\* of mockDistance drawn for the i-th registered face.
RECURSIVE BestMatch(_, _, _, _)
BestMatch(faces, ds, i, best) ==
    IF i > Len(faces) THEN best
    ELSE BestMatch(faces, ds, i + 1,
             IF ds[i] < Threshold /\ (~best.found \/ ds[i] < best.distance)
             THEN [found |-> TRUE, name |-> faces[i], distance |-> ds[i]]
             ELSE best)

ResultFullConfidence(best) ==
    [name |-> IF best.found THEN best.name ELSE Unknown,
     confidence |-> IF best.found THEN 100 ELSE 0]

\* The RecognitionResult built from bestMatch (its random id, its box and its
\* timestamp are left out); confidence (1 - distance) * 100, in hundredths.
Result(best) ==
    [name |-> IF best.found THEN best.name ELSE Unknown,
     confidence |-> IF best.found THEN 100 - best.distance ELSE 0]

SnapshotOfCurrentRender(c) == registeredFaces

\* The gallery a suspended call of processFrame matches against: the
\* registeredFaces of the render its callback was created in.
Snapshot(c) == c.fn.registeredFaces

Results(faces, n, dist) ==
    [k \in 1..n |-> Result(BestMatch(faces, dist[k], 1, NoMatch))]

\* The draws of mockDistance for n detections against a gallery.
Draws(faces, n) == [1..n -> [1..Len(faces) -> Distances]]

PublishKeepsWindow(results) ==
    LET timeDiff == now - lastFrameTime
        matched == CountMatched(results)
    IN /\ recognitionResults' = results
       /\ frameCount' = frameCount + 1
       /\ IF timeDiff >= WindowMs
          THEN /\ statistics' =
                    [detectedFaces |-> Len(results),
                     recognitionAccuracy |-> Ratio(matched * 100, Len(results)),
                     frameRate |-> Ratio((frameCount + 1) * 1000, timeDiff),
                     totalRecognitions |-> statistics.totalRecognitions + matched]
               /\ lastFrameTime' = now
          ELSE UNCHANGED <<statistics, lastFrameTime>>
       /\ recognitionHistory' = Take(results \o recognitionHistory, HistoryCap)
       /\ wsSent' = IF WsOpen THEN wsSent + 1 ELSE wsSent

PublishAlwaysSends(results) ==
    LET timeDiff == now - lastFrameTime
        matched == CountMatched(results)
    IN /\ recognitionResults' = results
       /\ IF timeDiff >= WindowMs
          THEN /\ statistics' =
                    [detectedFaces |-> Len(results),
                     recognitionAccuracy |-> Ratio(matched * 100, Len(results)),
                     frameRate |-> Ratio((frameCount + 1) * 1000, timeDiff),
                     totalRecognitions |-> statistics.totalRecognitions + matched]
               /\ frameCount' = 0
               /\ lastFrameTime' = now
          ELSE /\ frameCount' = frameCount + 1
               /\ UNCHANGED <<statistics, lastFrameTime>>
       /\ recognitionHistory' = Take(results \o recognitionHistory, HistoryCap)
       /\ wsSent' = wsSent + 1

\* The statistics block and what follows it, for a non-empty result list.
Publish(results) ==
    LET timeDiff == now - lastFrameTime
        matched == CountMatched(results)
    IN /\ recognitionResults' = results
       /\ IF timeDiff >= WindowMs
          THEN /\ statistics' =
                    [detectedFaces |-> Len(results),
                     recognitionAccuracy |-> Ratio(matched * 100, Len(results)),
                     frameRate |-> Ratio((frameCount + 1) * 1000, timeDiff),
                     totalRecognitions |-> statistics.totalRecognitions + matched]
               /\ frameCount' = 0
               /\ lastFrameTime' = now
          ELSE /\ frameCount' = frameCount + 1
               /\ UNCHANGED <<statistics, lastFrameTime>>
       /\ recognitionHistory' = Take(results \o recognitionHistory, HistoryCap)
       /\ wsSent' = IF WsOpen THEN wsSent + 1 ELSE wsSent

\* The detection call of cycle c resolved with n faces: processFrame after its
\* await, to its end.
detectAllFacesResolve(c, n, dist) ==
    /\ c \in inflight
    /\ inflight' = inflight \ {c}
    /\ pass' = [faces |-> Snapshot(c), n |-> n, dist |-> dist]
    /\ IF n = 0
       THEN /\ recognitionResults' = <<>>
            /\ statistics' = [statistics EXCEPT !.detectedFaces = 0]
            /\ UNCHANGED <<recognitionHistory, frameCount, lastFrameTime, wsSent>>
       ELSE Publish(Results(Snapshot(c), n, dist))
    /\ last' = "detectAllFacesResolve"
    /\ UNCHANGED <<cameraVars, isRecognitionActive, timerVars, loadVars, callSeq,
                   now, wsVars, mounted, toast, pageVars>>

detectAllFacesRejectClearsResults(c) ==
    /\ c \in inflight
    /\ inflight' = inflight \ {c}
    /\ recognitionResults' = <<>>
    /\ last' = "detectAllFacesReject"
    /\ UNCHANGED <<cameraVars, isRecognitionActive, timerVars, loadVars, callSeq,
                   statistics, recognitionHistory, frameCount, lastFrameTime,
                   wsSent, pass, now, wsVars, mounted, toast, pageVars>>

\* The detection call of cycle c rejected: the catch block of processFrame.
detectAllFacesReject(c) ==
    /\ c \in inflight
    /\ inflight' = inflight \ {c}
    /\ last' = "detectAllFacesReject"
    /\ UNCHANGED <<cameraVars, isRecognitionActive, timerVars, loadVars, callSeq,
                   resultVars, now, wsVars, mounted, toast, pageVars>>

\* An armed timer fires: the callback it was given runs.
Tick(t) ==
    /\ t \in timers
    /\ processFrame(t.fn)
    /\ last' = "Tick"
    /\ UNCHANGED <<cameraVars, isRecognitionActive, timerVars, loadVars,
                   resultVars, now, wsVars, mounted, toast, pageVars>>

\* processFrame called as the committed render defines it.
Frame ==
    /\ processFrame(Closure)
    /\ last' = "processFrame"
    /\ UNCHANGED <<cameraVars, isRecognitionActive, timerVars, loadVars,
                   resultVars, now, wsVars, mounted, toast, pageVars>>

AdvanceTime ==
    /\ now + TickPeriod <= MaxTime
    /\ now' = now + TickPeriod
    /\ last' = "AdvanceTime"
    /\ UNCHANGED <<cameraVars, isRecognitionActive, timerVars, loadVars, inflight,
                   callSeq, resultVars, wsVars, mounted, toast, pageVars>>

\* -------------------------------------------------------------- recognition
stopRecognitionAlsoStopsCamera ==
    /\ IF intervalRef # 0
       THEN /\ timers' = {t \in timers : t.id # intervalRef}
            /\ intervalRef' = 0
       ELSE UNCHANGED <<timers, intervalRef>>
    /\ isRecognitionActive' = FALSE
    /\ isCameraActive' = FALSE
    /\ inflight' = MarkStopped(inflight)
    /\ last' = "stopRecognition"
    /\ UNCHANGED <<streamRef, streams, streamSeq, timerSeq, loadVars, callSeq,
                   resultVars, now, wsVars, mounted, toast, pageVars>>

\* toggleRecognition, the branch taken while recognition is active.
stopRecognition ==
    /\ IF intervalRef # 0
       THEN /\ timers' = {t \in timers : t.id # intervalRef}
            /\ intervalRef' = 0
       ELSE UNCHANGED <<timers, intervalRef>>
    /\ isRecognitionActive' = FALSE
    /\ inflight' = MarkStopped(inflight)
    /\ last' = "stopRecognition"
    /\ UNCHANGED <<cameraVars, timerSeq, loadVars, callSeq, resultVars, now,
                   wsVars, mounted, toast, pageVars>>

\* toggleRecognition, the branch taken while recognition is not active. The
\* callback given to setInterval is the processFrame of the render this
\* toggleRecognition belongs to.
startRecognition ==
    IF ~isCameraActive
    THEN /\ toast' = "Camera Required"
         /\ last' = "startRecognitionRejected"
         /\ UNCHANGED <<cameraVars, isRecognitionActive, timerVars, loadVars,
                        inflight, callSeq, resultVars, now, wsVars, mounted, pageVars>>
    ELSE /\ timerSeq < MaxTimers
         /\ isRecognitionActive' = TRUE
         /\ timerSeq' = timerSeq + 1
         /\ timers' = timers \cup {[id |-> timerSeq + 1, fn |-> Closure]}
         /\ intervalRef' = timerSeq + 1
         /\ last' = "startRecognition"
         /\ UNCHANGED <<cameraVars, loadVars, inflight, callSeq, resultVars, now,
                        wsVars, mounted, toast, pageVars>>

toggleRecognition ==
    IF isRecognitionActive THEN stopRecognition ELSE startRecognition

RecognitionDisabledIgnoringModels == ~isCameraActive

\* disabled={!isCameraActive || !isModelsLoaded}
RecognitionDisabled == ~isCameraActive \/ ~isModelsLoaded

\* The recognition button: a click on it while disabled calls no handler.
RecognitionButton ==
    /\ mounted
    /\ IF RecognitionDisabled
       THEN /\ last' = "RecognitionButtonDisabled"
            /\ UNCHANGED <<cameraVars, isRecognitionActive, timerVars, loadVars,
                           inflight, callSeq, resultVars, now, wsVars, mounted,
                           toast, pageVars>>
       ELSE toggleRecognition

\* ----------------------------------------------------------------- teardown
\* The cleanup of the mount effect: the component is unmounted.
Cleanup ==
    /\ mounted
    /\ mounted' = FALSE
    /\ timers' = {t \in timers : t.id # intervalRef}
    /\ streams' = IF streamRef # 0
                  THEN [streams EXCEPT ![streamRef] = "stopped"]
                  ELSE streams
    /\ sockets' = IF wsRef # 0 /\ sockets[wsRef] \in {"connecting", "open"}
                  THEN [sockets EXCEPT ![wsRef] = "closing"]
                  ELSE sockets
    /\ last' = "Cleanup"
    /\ UNCHANGED <<isCameraActive, streamRef, streamSeq, isRecognitionActive,
                   intervalRef, timerSeq, loadVars, inflight, callSeq,
                   resultVars, now, toast, wsRef, socketSeq, reconnects,
                   wsStatus, pageVars>>

\* The mount effect runs again while mounted (one of its dependencies
\* changed): its cleanup runs, then loadModels(), loadRegisteredFaces() and
\* connectWebSocket() are called again. Taken here once the earlier loads have
\* settled.
EffectRerun ==
    /\ mounted
    /\ ~modelsPending /\ ~facesPending
    /\ socketSeq < MaxSockets
    /\ timers' = {t \in timers : t.id # intervalRef}
    /\ streams' = IF streamRef # 0
                  THEN [streams EXCEPT ![streamRef] = "stopped"]
                  ELSE streams
    /\ modelsPending' = TRUE
    /\ facesPending' = TRUE
    /\ sockets' = [k \in 1..MaxSockets |->
                     IF k = socketSeq + 1 THEN "connecting"
                     ELSE IF k = wsRef /\ sockets[k] \in {"connecting", "open"}
                          THEN "closing"
                          ELSE sockets[k]]
    /\ socketSeq' = socketSeq + 1
    /\ wsRef' = socketSeq + 1
    /\ wsStatus' = "connecting"
    /\ last' = "EffectRerun"
    /\ UNCHANGED <<isCameraActive, streamRef, streamSeq, isRecognitionActive,
                   intervalRef, timerSeq, isModelsLoaded, registeredFaces,
                   inflight, callSeq, resultVars, now, toast, reconnects,
                   mounted, pageVars>>

\* ----------------------------------------------------------- specifications
\* The component as wired: the only caller of processFrame is the timer.
Next ==
    \/ loadModelsResolve
    \/ loadModelsReject
    \/ \E data \in Galleries : loadRegisteredFacesResolve(data)
    \/ loadRegisteredFacesReject
    \/ \E k \in 1..MaxSockets : wsOnOpen(k)
    \/ \E k \in 1..MaxSockets : wsOnClose(k)
    \/ ReconnectTimer
    \/ CameraButton
    \/ \E s \in 1..MaxStreams : getUserMediaResolve(s)
    \/ \E s \in 1..MaxStreams : getUserMediaReject(s)
    \/ RecognitionButton
    \/ \E t \in timers : Tick(t)
    \/ AdvanceTime

Spec == Init /\ [][Next]_vars

\* The component as wired, to its unmount and beyond: what was armed or
\* requested before the cleanup still fires after it.
NextTeardown == Next \/ Cleanup

SpecTeardown == Init /\ [][NextTeardown]_vars

\* The socket under every caller of connectWebSocket: the mount effect, the
\* effect run again, and the reconnect timers, with the socket events and the
\* mount loads in any order.
NextSocket ==
    \/ loadModelsResolve
    \/ loadModelsReject
    \/ \E data \in Galleries : loadRegisteredFacesResolve(data)
    \/ loadRegisteredFacesReject
    \/ \E k \in 1..MaxSockets : wsOnOpen(k)
    \/ \E k \in 1..MaxSockets : wsOnClose(k)
    \/ ReconnectTimer
    \/ EffectRerun
    \/ Cleanup

SpecSocket == Init /\ [][NextSocket]_vars

\* processFrame exercised as a unit: the processFrame of the committed render
\* is called directly and its detection calls complete. The runs start in the
\* state of Spec in which recognition has just been started (models loaded,
\* camera acquired, timer armed, the gallery load still outstanding), with the
\* socket open or closed.
InitDetect ==
    /\ isCameraActive = TRUE
    /\ isRecognitionActive = TRUE
    /\ isModelsLoaded = TRUE
    /\ modelsPending = FALSE
    /\ registeredFaces = <<>>
    /\ facesPending = TRUE
    /\ streamRef = 1
    /\ streams = [s \in 1..MaxStreams |-> IF s = 1 THEN "live" ELSE "none"]
    /\ streamSeq = 1
    /\ intervalRef = 1
    /\ timers = {[id |-> 1,
                  fn |-> [isModelsLoaded |-> TRUE, isRecognitionActive |-> FALSE,
                          registeredFaces |-> <<>>]]}
    /\ timerSeq = 1
    /\ inflight = {}
    /\ callSeq = 0
    /\ recognitionResults = <<>>
    /\ statistics = [detectedFaces |-> 0, recognitionAccuracy |-> Ratio(0, 1),
                     frameRate |-> Ratio(0, 1), totalRecognitions |-> 0]
    /\ recognitionHistory = <<>>
    /\ frameCount = 0
    /\ lastFrameTime = 0
    /\ now = 0
    /\ \E readyState \in {"open", "closed"} : SocketIs(readyState)
    /\ mounted = TRUE
    /\ PagesInit
    /\ wsSent = 0
    /\ toast = ""
    /\ pass = NoPass
    /\ last = "startRecognition"

Detect ==
    \/ \E c \in inflight : \E n \in 0..MaxFaces :
          \E dist \in Draws(Snapshot(c), n) :
             detectAllFacesResolve(c, n, dist)
    \/ \E c \in inflight : detectAllFacesReject(c)

NextDetect ==
    \/ Frame
    \/ Detect
    \/ \E t \in timers : Tick(t)
    \/ \E data \in Galleries : loadRegisteredFacesResolve(data)
    \/ loadRegisteredFacesReject
    \/ RecognitionButton
    \/ AdvanceTime

SpecDetect == InitDetect /\ [][NextDetect]_vars

\* One matching pass after another: the runs start in a state of SpecDetect in
\* which two calls of processFrame are suspended at their await, the first
\* made before the gallery load settled or after it, the second likewise, at
\* a time at which the statistics window has or has not elapsed.
MatchStarts ==
    {<<g1, g2, g, pending>> \in
         (Galleries \X Galleries \X Galleries \X BOOLEAN) :
       \/ pending /\ g1 = <<>> /\ g2 = <<>> /\ g = <<>>
       \/ ~pending /\ g1 = <<>> /\ g2 \in {<<>>, g}
       \/ ~pending /\ g1 = g /\ g2 = g}

InitMatch ==
    \E st \in MatchStarts :
    /\ isCameraActive = TRUE
    /\ isRecognitionActive = TRUE
    /\ isModelsLoaded = TRUE
    /\ modelsPending = FALSE
    /\ registeredFaces = st[3]
    /\ facesPending = st[4]
    /\ streamRef = 1
    /\ streams = [s \in 1..MaxStreams |-> IF s = 1 THEN "live" ELSE "none"]
    /\ streamSeq = 1
    /\ intervalRef = 1
    /\ timers = {[id |-> 1,
                  fn |-> [isModelsLoaded |-> TRUE, isRecognitionActive |-> FALSE,
                          registeredFaces |-> <<>>]]}
    /\ timerSeq = 1
    /\ inflight =
          {[id |-> 1, stopped |-> FALSE,
            fn |-> [isModelsLoaded |-> TRUE, isRecognitionActive |-> TRUE,
                    registeredFaces |-> st[1]]],
           [id |-> 2, stopped |-> FALSE,
            fn |-> [isModelsLoaded |-> TRUE, isRecognitionActive |-> TRUE,
                    registeredFaces |-> st[2]]]}
    /\ callSeq = 2
    /\ recognitionResults = <<>>
    /\ statistics = [detectedFaces |-> 0, recognitionAccuracy |-> Ratio(0, 1),
                     frameRate |-> Ratio(0, 1), totalRecognitions |-> 0]
    /\ recognitionHistory = <<>>
    /\ frameCount = 0
    /\ lastFrameTime = 0
    /\ now \in {0, WindowMs}
    /\ \E readyState \in {"open", "closed"} : SocketIs(readyState)
    /\ mounted = TRUE
    /\ PagesInit
    /\ wsSent = 0
    /\ toast = ""
    /\ pass = NoPass
    /\ last = IF ~st[4] /\ st[2] # st[3]
              THEN "loadRegisteredFacesResolve" ELSE "processFrame"

NextMatch == Detect

SpecMatch == InitMatch /\ [][NextMatch]_vars

\* The statistics window: the two suspended calls of InitMatch complete while
\* the clock advances, so that a pass can fall before the end of the window or
\* after it, with or without a frame counted before it.
NextStats == Detect \/ AdvanceTime

SpecStats == InitMatch /\ [][NextStats]_vars

\* The history at its capacity: the runs start in a state in which a first
\* pass, made against the empty gallery before the load settled, reported h
\* faces at once (one result, one short of the capacity, or the capacity), and
\* two later calls of processFrame are suspended at their await.
InitHistory ==
    \E h \in {1, HistoryCap - 1, HistoryCap} : \E g \in Galleries :
    LET first == [k \in 1..h |-> [name |-> Unknown, confidence |-> 0]]
        fn == [isModelsLoaded |-> TRUE, isRecognitionActive |-> TRUE,
               registeredFaces |-> g]
    IN
    /\ isCameraActive = TRUE
    /\ isRecognitionActive = TRUE
    /\ isModelsLoaded = TRUE
    /\ modelsPending = FALSE
    /\ registeredFaces = g
    /\ facesPending = FALSE
    /\ streamRef = 1
    /\ streams = [s \in 1..MaxStreams |-> IF s = 1 THEN "live" ELSE "none"]
    /\ streamSeq = 1
    /\ intervalRef = 1
    /\ timers = {[id |-> 1,
                  fn |-> [isModelsLoaded |-> TRUE, isRecognitionActive |-> FALSE,
                          registeredFaces |-> <<>>]]}
    /\ timerSeq = 1
    /\ inflight = {[id |-> 2, stopped |-> FALSE, fn |-> fn],
                   [id |-> 3, stopped |-> FALSE, fn |-> fn]}
    /\ callSeq = 3
    /\ recognitionResults = first
    /\ statistics = [detectedFaces |-> 0, recognitionAccuracy |-> Ratio(0, 1),
                     frameRate |-> Ratio(0, 1), totalRecognitions |-> 0]
    /\ recognitionHistory = first
    /\ frameCount = 1
    /\ lastFrameTime = 0
    /\ now \in {0, WindowMs}
    /\ \E readyState \in {"open", "closed"} : SocketIs(readyState)
    /\ mounted = TRUE
    /\ PagesInit
    /\ wsSent = IF WsOpen THEN 1 ELSE 0
    /\ toast = ""
    /\ pass = [faces |-> <<>>, n |-> h, dist |-> [k \in 1..h |-> <<>>]]
    /\ last = "processFrame"

SpecHistory == InitHistory /\ [][NextMatch]_vars

\* -------------------------------------------------------------------- Index
\* The variables of LiveRecognition, which no other component touches; the
\* toast and the observation variable last are shared.
liveVars == <<cameraVars, timerVars, loadVars, resultVars, wsVars,
              isRecognitionActive, inflight, callSeq, now, mounted>>

\* The values of the three TabsTrigger elements.
TabValues == {"registration", "recognition", "chat"}

\* The keydown events told apart: e.key with the modifiers held.
Keys == {"1", "2", "3", "4", "a", "!"}
KeyEvents == [key : Keys, ctrlKey : BOOLEAN, metaKey : BOOLEAN, shiftKey : BOOLEAN]

Index_handleKeyPressIgnoringModifiers(e) ==
    /\ currentTab' = (CASE e.key = "1" -> "registration"
                        [] e.key = "2" -> "recognition"
                        [] e.key = "3" -> "chat"
                        [] OTHER -> currentTab)
    /\ keydown' = e
    /\ last' = "Index.handleKeyPress"
    /\ UNCHANGED <<liveVars, toast, faceRegistration, chatInterface>>

\* The window's keydown listener.
Index_handleKeyPress(e) ==
    /\ currentTab' = (IF e.ctrlKey \/ e.metaKey
                      THEN CASE e.key = "1" -> "registration"
                             [] e.key = "2" -> "recognition"
                             [] e.key = "3" -> "chat"
                             [] OTHER -> currentTab
                      ELSE currentTab)
    /\ keydown' = e
    /\ last' = "Index.handleKeyPress"
    /\ UNCHANGED <<liveVars, toast, faceRegistration, chatInterface>>

\* <Tabs onValueChange={setCurrentTab}>: a click on the trigger of value v.
Index_onValueChange(v) ==
    /\ currentTab' = v
    /\ last' = "Index.onValueChange"
    /\ UNCHANGED <<liveVars, toast, faceRegistration, chatInterface, keydown>>

NextIndex ==
    \/ \E e \in KeyEvents : Index_handleKeyPress(e)
    \/ \E v \in TabValues : Index_onValueChange(v)

SpecIndex == Init /\ [][NextIndex]_vars

\* --------------------------------------------------------- FaceRegistration
\* Every action leaves the other components alone.
FaceRegistrationOnly == UNCHANGED <<liveVars, chatInterface, currentTab, keydown>>

FaceRegistration_loadModelsResolve ==
    /\ faceRegistration.modelsPending
    /\ faceRegistration' = [faceRegistration EXCEPT !.modelsPending = FALSE,
                                                    !.modelsLoaded = TRUE,
                                                    !.isLoading = FALSE]
    /\ last' = "FaceRegistration.loadModelsResolve"
    /\ UNCHANGED toast
    /\ FaceRegistrationOnly

FaceRegistration_loadModelsReject ==
    /\ faceRegistration.modelsPending
    /\ faceRegistration' = [faceRegistration EXCEPT !.modelsPending = FALSE,
                                                    !.modelsLoaded = TRUE,
                                                    !.isLoading = FALSE]
    /\ toast' = "Model Loading Error"
    /\ last' = "FaceRegistration.loadModelsReject"
    /\ FaceRegistrationOnly

FaceRegistration_fetchRegistrationsResolve ==
    /\ faceRegistration.fetches > 0
    /\ faceRegistration' = [faceRegistration EXCEPT !.fetches = @ - 1,
                                                    !.registrations = faceRegistration.db]
    /\ last' = "FaceRegistration.fetchRegistrationsResolve"
    /\ UNCHANGED toast
    /\ FaceRegistrationOnly

FaceRegistration_fetchRegistrationsReject ==
    /\ faceRegistration.fetches > 0
    /\ faceRegistration' = [faceRegistration EXCEPT !.fetches = @ - 1]
    /\ toast' = "Database Error"
    /\ last' = "FaceRegistration.fetchRegistrationsReject"
    /\ FaceRegistrationOnly

\* The Start Camera button: rendered while the camera is inactive, disabled
\* while isLoading. startCamera runs up to its await.
FaceRegistration_startCamera ==
    /\ ~faceRegistration.isCameraActive
    /\ ~faceRegistration.isLoading
    /\ faceRegistration.streamSeq < MaxCameraCalls
    /\ faceRegistration' =
          [faceRegistration EXCEPT !.isLoading = TRUE,
                                   !.streamSeq = @ + 1,
                                   !.streams[faceRegistration.streamSeq + 1] = "pending"]
    /\ last' = "FaceRegistration.startCamera"
    /\ UNCHANGED toast
    /\ FaceRegistrationOnly

\* videoRef.current: the <video> element is rendered only while isCameraActive.
FaceRegistration_videoRef == faceRegistration.isCameraActive

\* startCamera after its await: the stream is attached, stored and the camera
\* marked active only if (videoRef.current); finally isLoading is cleared.
FaceRegistration_getUserMediaResolve(s) ==
    /\ faceRegistration.streams[s] = "pending"
    /\ faceRegistration' =
          IF FaceRegistration_videoRef
          THEN [faceRegistration EXCEPT !.streams[s] = "live",
                                        !.streamRef = s,
                                        !.isCameraActive = TRUE,
                                        !.isLoading = FALSE]
          ELSE [faceRegistration EXCEPT !.streams[s] = "live",
                                        !.isLoading = FALSE]
    /\ last' = "FaceRegistration.getUserMediaResolve"
    /\ UNCHANGED toast
    /\ FaceRegistrationOnly

FaceRegistration_getUserMediaReject(s) ==
    /\ faceRegistration.streams[s] = "pending"
    /\ faceRegistration' = [faceRegistration EXCEPT !.streams[s] = "failed",
                                                    !.isLoading = FALSE]
    /\ toast' = "Camera Error"
    /\ last' = "FaceRegistration.getUserMediaReject"
    /\ FaceRegistrationOnly

\* The Stop Camera button, rendered while the camera is active.
FaceRegistration_stopCamera ==
    /\ faceRegistration.isCameraActive
    /\ faceRegistration' =
          [faceRegistration EXCEPT
             !.streams = IF faceRegistration.streamRef # 0
                         THEN [@ EXCEPT ![faceRegistration.streamRef] = "stopped"]
                         ELSE @,
             !.streamRef = 0,
             !.isCameraActive = FALSE,
             !.faceDetected = FALSE,
             !.capturedImage = Null]
    /\ last' = "FaceRegistration.stopCamera"
    /\ UNCHANGED toast
    /\ FaceRegistrationOnly

\* The name input's onChange.
FaceRegistration_setName(t) ==
    /\ faceRegistration.name # t
    /\ faceRegistration' = [faceRegistration EXCEPT !.name = t]
    /\ last' = "FaceRegistration.setName"
    /\ UNCHANGED toast
    /\ FaceRegistrationOnly

\* registerFace up to its await, called as a function: the Register Face
\* button is rendered only with a captured image and disabled while the name
\* is blank, so the early return is reached by a direct call only.
FaceRegistration_registerFace ==
    IF faceRegistration.capturedImage = Null \/ trim(faceRegistration.name) = <<>>
    THEN /\ toast' = "Missing Information"
         /\ last' = "FaceRegistration.registerFaceReturn"
         /\ UNCHANGED faceRegistration
         /\ FaceRegistrationOnly
    ELSE /\ faceRegistration.insertSeq < MaxInserts
         /\ faceRegistration' =
               [faceRegistration EXCEPT
                  !.isLoading = TRUE,
                  !.insertSeq = @ + 1,
                  !.inserts = @ \cup {[id |-> faceRegistration.insertSeq + 1,
                                       name |-> trim(faceRegistration.name),
                                       face_encoding |-> faceRegistration.capturedImage]}]
         /\ last' = "FaceRegistration.registerFace"
         /\ UNCHANGED toast
         /\ FaceRegistrationOnly

\* The insert succeeded: toast, form reset, fetchRegistrations() started (not
\* awaited), finally isLoading cleared. The table lists the newest row first.
FaceRegistration_insertResolve(i) ==
    /\ i \in faceRegistration.inserts
    /\ faceRegistration' = [faceRegistration EXCEPT !.inserts = @ \ {i},
                                                    !.db = <<i.name>> \o @,
                                                    !.name = <<>>,
                                                    !.capturedImage = Null,
                                                    !.faceDetected = FALSE,
                                                    !.fetches = @ + 1,
                                                    !.isLoading = FALSE]
    /\ toast' = "Registration Successful"
    /\ last' = "FaceRegistration.insertResolve"
    /\ FaceRegistrationOnly

FaceRegistration_insertRejectResetsForm(i) ==
    /\ i \in faceRegistration.inserts
    /\ faceRegistration' = [faceRegistration EXCEPT !.inserts = @ \ {i},
                                                    !.name = <<>>,
                                                    !.capturedImage = Null,
                                                    !.isLoading = FALSE]
    /\ toast' = "Registration Failed"
    /\ last' = "FaceRegistration.insertReject"
    /\ FaceRegistrationOnly

\* The insert failed: toast, finally isLoading cleared.
FaceRegistration_insertReject(i) ==
    /\ i \in faceRegistration.inserts
    /\ faceRegistration' = [faceRegistration EXCEPT !.inserts = @ \ {i},
                                                    !.isLoading = FALSE]
    /\ toast' = "Registration Failed"
    /\ last' = "FaceRegistration.insertReject"
    /\ FaceRegistrationOnly

\* The component either at its mount or, so that every handler has its case,
\* as a working camera would have left it: models loaded, stream 1 live and
\* attached, with or without a face detected, an image captured and a name
\* typed.
InitRegistration ==
    /\ LiveRecognitionInit
    /\ chatInterface = ChatInterfaceMount
    /\ currentTab = "registration"
    /\ keydown = NoKey
    /\ \/ faceRegistration = FaceRegistrationMount
       \/ \E img \in {Null, Image}, t \in Texts, fd \in BOOLEAN :
            faceRegistration =
              [FaceRegistrationMount EXCEPT
                 !.isLoading = FALSE, !.modelsPending = FALSE,
                 !.modelsLoaded = TRUE, !.isCameraActive = TRUE,
                 !.streamRef = 1, !.streamSeq = 1, !.streams[1] = "live",
                 !.faceDetected = fd, !.capturedImage = img, !.name = t]

NextRegistration ==
    \/ FaceRegistration_loadModelsResolve
    \/ FaceRegistration_loadModelsReject
    \/ FaceRegistration_fetchRegistrationsResolve
    \/ FaceRegistration_fetchRegistrationsReject
    \/ FaceRegistration_startCamera
    \/ \E s \in 1..MaxCameraCalls : FaceRegistration_getUserMediaResolve(s)
    \/ \E s \in 1..MaxCameraCalls : FaceRegistration_getUserMediaReject(s)
    \/ FaceRegistration_stopCamera
    \/ \E t \in Texts : FaceRegistration_setName(t)
    \/ FaceRegistration_registerFace
    \/ \E i \in faceRegistration.inserts : FaceRegistration_insertResolve(i)
    \/ \E i \in faceRegistration.inserts : FaceRegistration_insertReject(i)

SpecRegistration == InitRegistration /\ [][NextRegistration]_vars

\* ------------------------------------------------------------ ChatInterface
ChatInterfaceOnly == UNCHANGED <<liveVars, faceRegistration, currentTab, keydown, toast>>

Analyzing == <<"Analyzing your query...">>
Sorry == <<"Sorry, I encountered an error processing your query. Please try again.">>

\* processQuery(query) as called by a sendMessage whose closure holds the
\* registrationData of the render it was created in: the answer is a function
\* of both.
processQuery(query, data) == <<"answer", query, data>>

\* The textarea's onChange.
ChatInterface_setInputMessage(t) ==
    /\ chatInterface.inputMessage # t
    /\ chatInterface' = [chatInterface EXCEPT !.inputMessage = t]
    /\ last' = "ChatInterface.setInputMessage"
    /\ ChatInterfaceOnly

\* sendMessage up to its await. Ids are Date.now() and Date.now() + 1.
sendMessage ==
    LET text == trim(chatInterface.inputMessage)
        userMessage == [id |-> chatInterface.clock, type |-> "user",
                        content |-> text, isLoading |-> FALSE]
        loadingMessage == [id |-> chatInterface.clock + 1, type |-> "ai",
                           content |-> Analyzing, isLoading |-> TRUE]
    IN  IF text = <<>>
        THEN UNCHANGED chatInterface
        ELSE /\ chatInterface.sendSeq < MaxSends
             /\ chatInterface' =
                   [chatInterface EXCEPT
                      !.messages = @ \o <<userMessage, loadingMessage>>,
                      !.inputMessage = <<>>,
                      !.isTyping = TRUE,
                      !.sendSeq = @ + 1,
                      !.sends = @ \cup {[n |-> chatInterface.sendSeq + 1,
                                          loadingId |-> loadingMessage.id,
                                          query |-> text,
                                          data |-> chatInterface.registrationData]}]

\* The send button: disabled={!inputMessage.trim() || isTyping}.
ChatInterface_sendButton ==
    /\ trim(chatInterface.inputMessage) # <<>>
    /\ ~chatInterface.isTyping
    /\ sendMessage
    /\ last' = "ChatInterface.sendButton"
    /\ ChatInterfaceOnly

\* The textarea's onKeyPress.
ChatInterface_handleKeyPress(key, shiftKey) ==
    /\ IF key = "Enter" /\ ~shiftKey
       THEN sendMessage
       ELSE UNCHANGED chatInterface
    /\ last' = "ChatInterface.handleKeyPress"
    /\ ChatInterfaceOnly

\* msgs.map(msg => msg.id === id ? {...msg, content, isLoading: false} : msg)
Replace(msgs, id, content) ==
    [i \in DOMAIN msgs |->
       IF msgs[i].id = id
       THEN [msgs[i] EXCEPT !.content = content, !.isLoading = FALSE]
       ELSE msgs[i]]

\* sendMessage after its awaits: the timeout has fired and processQuery has
\* answered; finally isTyping is cleared.
ChatInterface_sendResolve(c) ==
    /\ c \in chatInterface.sends
    /\ chatInterface' =
          [chatInterface EXCEPT
             !.messages = Replace(@, c.loadingId, processQuery(c.query, c.data)),
             !.isTyping = FALSE,
             !.sends = @ \ {c}]
    /\ last' = "ChatInterface.sendResolve"
    /\ ChatInterfaceOnly

\* The catch branch of sendMessage, then finally.
ChatInterface_sendReject(c) ==
    /\ c \in chatInterface.sends
    /\ chatInterface' = [chatInterface EXCEPT
                           !.messages = Replace(@, c.loadingId, Sorry),
                           !.isTyping = FALSE,
                           !.sends = @ \ {c}]
    /\ toast' = "Error"
    /\ last' = "ChatInterface.sendReject"
    /\ UNCHANGED <<liveVars, faceRegistration, currentTab, keydown>>

\* A postgres_changes event on the subscribed channel: the table has changed
\* and fetchRegistrationData() is called.
ChatInterface_postgresChanges ==
    /\ chatInterface.fetchSeq < MaxFetches
    /\ chatInterface' =
          [chatInterface EXCEPT
             !.db = @ + 1,
             !.fetchSeq = @ + 1,
             !.fetches = @ \cup {[n |-> chatInterface.fetchSeq + 1,
                                   rows |-> chatInterface.db + 1]}]
    /\ last' = "ChatInterface.postgresChanges"
    /\ ChatInterfaceOnly

\* fetchRegistrationData after its await: the select answered with the table
\* as it was at some time between the call and now. dataOf records the call
\* whose rows registrationData holds.
ChatInterface_fetchResolve(f, rows) ==
    /\ f \in chatInterface.fetches
    /\ rows \in f.rows..chatInterface.db
    /\ chatInterface' = [chatInterface EXCEPT !.registrationData = rows,
                                              !.dataOf = f.n,
                                              !.fetches = @ \ {f}]
    /\ last' = "ChatInterface.fetchResolve"
    /\ ChatInterfaceOnly

\* The catch branch of fetchRegistrationData.
ChatInterface_fetchReject(f) ==
    /\ f \in chatInterface.fetches
    /\ chatInterface' = [chatInterface EXCEPT !.fetches = @ \ {f},
                                              !.failed = @ \cup {f.n}]
    /\ last' = "ChatInterface.fetchReject"
    /\ ChatInterfaceOnly

\* A millisecond passes.
ChatInterface_dateNow ==
    /\ chatInterface.clock < MaxClock
    /\ chatInterface' = [chatInterface EXCEPT !.clock = @ + 1]
    /\ last' = "ChatInterface.dateNow"
    /\ ChatInterfaceOnly

\* The conversation: typing, sending, answers, the clock, and the fetch of the
\* mount.
NextChat ==
    \/ \E t \in Texts : ChatInterface_setInputMessage(t)
    \/ ChatInterface_sendButton
    \/ \E key \in {"Enter", "a"}, shiftKey \in BOOLEAN :
          ChatInterface_handleKeyPress(key, shiftKey)
    \/ \E c \in chatInterface.sends : ChatInterface_sendResolve(c)
    \/ \E c \in chatInterface.sends : ChatInterface_sendReject(c)
    \/ \E f \in chatInterface.fetches, rows \in 0..MaxFetches :
          ChatInterface_fetchResolve(f, rows)
    \/ \E f \in chatInterface.fetches : ChatInterface_fetchReject(f)
    \/ ChatInterface_dateNow

SpecChat == Init /\ [][NextChat]_vars

\* The registration data: change notifications and fetches, while messages
\* are sent with the button.
NextChatData ==
    \/ ChatInterface_postgresChanges
    \/ \E f \in chatInterface.fetches, rows \in 0..MaxFetches :
          ChatInterface_fetchResolve(f, rows)
    \/ \E f \in chatInterface.fetches : ChatInterface_fetchReject(f)
    \/ \E t \in {<<>>, <<"a">>} : ChatInterface_setInputMessage(t)
    \/ ChatInterface_sendButton
    \/ \E c \in chatInterface.sends : ChatInterface_sendResolve(c)

SpecChatData == Init /\ [][NextChatData]_vars

\* ------------------------------------------------------------------- claims
\* As wired, no processFrame call ever gets past its guard: the timer holds the
\* callback of a render in which isRecognitionActive was false.
NoCycleAsWired == inflight = {} /\ callSeq = 0

\* C1: at most one detect+match cycle is in flight at any time; a call of
\* processFrame made while a cycle is outstanding starts no detection call.
C1_AtMostOneCycleInFlight == Cardinality(inflight) <= 1

C1_Overlap ==
    \E c, d \in inflight : c.id # d.id /\ ~c.stopped /\ ~d.stopped

\* C2: a detection call that was outstanding when stop_recognition() or
\* stop_camera() ran is discarded when it resolves: recognitionResults,
\* statistics and recognitionHistory keep their values and nothing is sent.
C2_LateResultDiscarded ==
    [][(\E c \in inflight :
           c.stopped /\ c \notin inflight' /\ last' = "detectAllFacesResolve")
       => UNCHANGED <<recognitionResults, statistics, recognitionHistory, wsSent>>]_vars

C2_StoppedCycleOutstanding ==
    /\ ~isRecognitionActive
    /\ \E c \in inflight : c.stopped

\* C3: once stop_recognition() or stop_camera() has returned, no timer callback
\* runs until start_recognition() succeeds again: a tick fires only while
\* recognition is active.
C3_NoTickAfterStop == [][last' = "Tick" => isRecognitionActive]_vars

\* C4: stop_camera() leaves the session Idle: the camera is inactive, the
\* stream that was held is stopped and the reference to it cleared, and
\* isRecognitionActive is false.
C4_StopCameraLeavesIdle ==
    [][last' = "stopCamera" =>
          /\ ~isCameraActive'
          /\ ~isRecognitionActive'
          /\ streamRef' = 0
          /\ (streamRef # 0 => streams'[streamRef] = "stopped")]_vars

C4_StoppedWhileRecognizing ==
    /\ last = "stopCamera"
    /\ intervalRef # 0
    /\ \E s \in 1..MaxStreams : streams[s] = "stopped"
    /\ \A s \in 1..MaxStreams : streams[s] # "live"

\* C5: at most one tick timer is armed, and a timer is armed only while the
\* session is Recognizing.
C5_SingleTimerOnlyWhileRecognizing ==
    /\ Cardinality(timers) <= 1
    /\ (timers # {} => isRecognitionActive)

C5_TwoTimersArmed == Cardinality(timers) = 2

\* C6: a tick that fires while the session is Recognizing, the models are
\* loaded and no cycle is outstanding starts a detection call.
C6_TickStartsDetection ==
    [][(/\ last' = "Tick"
        /\ isCameraActive /\ isRecognitionActive /\ isModelsLoaded
        /\ inflight = {})
       => callSeq' = callSeq + 1]_vars

C6_TickWhileRecognizing ==
    /\ last = "Tick"
    /\ isCameraActive /\ isRecognitionActive /\ isModelsLoaded
    /\ callSeq = 0

\* C7: recognition starts only from CameraReady with the models loaded; a
\* start attempted otherwise changes nothing: isRecognitionActive stays false
\* and no timer is armed.
C7_StartOnlyWhenReady ==
    [][/\ (~isRecognitionActive /\ isRecognitionActive')
             => (isCameraActive /\ isModelsLoaded)
       /\ (timerSeq' # timerSeq) => (isCameraActive /\ isModelsLoaded)
       /\ (last' \in {"RecognitionButtonDisabled", "startRecognitionRejected"})
             => /\ ~isRecognitionActive'
                /\ UNCHANGED <<isRecognitionActive, isCameraActive, streamRef,
                               intervalRef, timers, timerSeq>>]_vars

C7_RejectedModelsNotLoaded ==
    /\ last = "RecognitionButtonDisabled"
    /\ isCameraActive
    /\ ~isModelsLoaded
    /\ ~isRecognitionActive
    /\ timers = {}

\* C8: a failed camera acquisition changes neither isCameraActive nor
\* isRecognitionActive nor the stream held, so an Idle session stays Idle, and
\* the failure is reported.
C8_AcquireFailureKeepsState ==
    [][last' = "getUserMediaReject" =>
          /\ UNCHANGED <<isCameraActive, isRecognitionActive, streamRef>>
          /\ toast' = "Camera Error"]_vars

C8_FailedWhileIdle ==
    /\ last = "getUserMediaReject"
    /\ ~isCameraActive /\ ~isRecognitionActive
    /\ streamRef = 0
    /\ toast = "Camera Error"
    /\ \E s \in 1..MaxStreams : streams[s] = "failed"

\* C9: isRecognitionActive implies isCameraActive, and isCameraActive implies
\* that a live media stream is held.
C9_SessionStateWellFormed ==
    /\ isRecognitionActive => isCameraActive
    /\ isCameraActive => (streamRef # 0 /\ streams[streamRef] = "live")

C9_RecognizingAfterRestart ==
    /\ isRecognitionActive
    /\ isCameraActive
    /\ \E s \in 1..MaxStreams : streams[s] = "stopped"

\* C10: stop_recognition() takes the session from Recognizing to CameraReady:
\* the timer of intervalRef is cleared and isRecognitionActive becomes false;
\* the camera, the stream, the gallery, the statistics and the history keep
\* their values.
C10_StopRecognitionFrame ==
    [][last' = "stopRecognition" =>
          /\ isRecognitionActive /\ isCameraActive
          /\ ~isRecognitionActive'
          /\ intervalRef' = 0
          /\ timers' = {t \in timers : t.id # intervalRef}
          /\ UNCHANGED <<isCameraActive, streamRef, streams, registeredFaces,
                         recognitionResults, statistics, recognitionHistory>>]_vars

C10_StoppedToCameraReady ==
    /\ last = "stopRecognition"
    /\ isCameraActive /\ ~isRecognitionActive
    /\ streamRef # 0 /\ streams[streamRef] = "live"
    /\ intervalRef = 0 /\ timers = {}
    /\ timerSeq > 0

\* C11: a detection failure changes no state: the session stays Recognizing
\* with its timer armed, the results, the statistics and the history keep
\* their values, and the guard of the next processFrame call still passes.
C11_FailureChangesNothing ==
    [][last' = "detectAllFacesReject" =>
          /\ UNCHANGED <<isCameraActive, isRecognitionActive, intervalRef, timers,
                         recognitionResults, statistics, recognitionHistory,
                         frameCount, lastFrameTime, wsSent, toast>>
          /\ (isRecognitionActive =>
                 isModelsLoaded' /\ isRecognitionActive' /\ timers' # {})]_vars

C11_FailedAfterPublishedFrame ==
    /\ last = "detectAllFacesReject"
    /\ isRecognitionActive
    /\ timers # {}
    /\ recognitionResults # <<>>
    /\ statistics.detectedFaces > 0

\* C12: once three detection calls in a row have failed, exactly one
\* DetectionDegraded signal has been emitted (as a message or as a toast),
\* and none before the third failure.
C12_DegradedSignalledOnce ==
    LET allFailed == pass = NoPass /\ inflight = {}
        signals == wsSent + (IF toast = "Detection Degraded" THEN 1 ELSE 0)
    IN /\ (allFailed /\ callSeq >= 3) => signals = 1
       /\ (allFailed /\ callSeq < 3) => signals = 0

C12_ThreeFailuresInARow ==
    /\ pass = NoPass /\ inflight = {} /\ callSeq = 3
    /\ last = "detectAllFacesReject"
    /\ isRecognitionActive

\* C13: a matching pass reports only identities of the gallery it started
\* with, whatever the gallery is when its detection call resolves.
C13_PassUsesItsSnapshot ==
    [][\A c \in inflight :
          (c \notin inflight' /\ last' = "detectAllFacesResolve") =>
             \A k \in 1..Len(recognitionResults') :
                \/ recognitionResults'[k].name = Unknown
                \/ \E i \in 1..Len(c.fn.registeredFaces) :
                      recognitionResults'[k].name = c.fn.registeredFaces[i]]_vars

C13_SwappedMidPass ==
    /\ last = "detectAllFacesResolve"
    /\ pass.faces = <<>>
    /\ pass.n > 0
    /\ registeredFaces # <<>>
    /\ Len(recognitionResults) = pass.n

\* C14: once a gallery load has replaced registeredFaces, a tick matches
\* against the new gallery: the callback a timer runs closes over the current
\* registeredFaces.
C14_TickSeesCurrentGallery ==
    [][\A t \in timers :
          Tick(t) => t.fn.registeredFaces = registeredFaces]_vars

C14_StaleTimerGallery ==
    /\ isRecognitionActive
    /\ last = "Tick"
    /\ \E t \in timers : t.id = intervalRef /\ t.fn.registeredFaces # registeredFaces

\* C15: a failed gallery fetch leaves registeredFaces as it was and reports
\* the failure.
C15_FetchFailureKeepsGallery ==
    [][last' = "loadRegisteredFacesReject" =>
          /\ UNCHANGED registeredFaces
          /\ toast' = "Database Error"]_vars

C15_FetchFailed ==
    /\ last = "loadRegisteredFacesReject"
    /\ ~facesPending
    /\ registeredFaces = <<>>
    /\ toast = "Database Error"

\* C16: when the only gallery load failed, no matching pass labels detected
\* faces as unmatched against the empty gallery.
C16_NoPassAfterFetchError ==
    ~(/\ toast = "Database Error"
      /\ last = "detectAllFacesResolve"
      /\ pass.n > 0)

C16_UnknownAfterFetchError ==
    /\ toast = "Database Error"
    /\ last = "detectAllFacesResolve"
    /\ pass.n > 0
    /\ pass.faces = <<>>
    /\ \A k \in 1..Len(recognitionResults) : recognitionResults[k].name = Unknown

\* C17: a result is 'Unknown Person' if and only if no identity of the
\* gallery of its pass drew a distance below the threshold.
C17_UnknownIffNoneBelowThreshold ==
    last = "detectAllFacesResolve" =>
       /\ Len(recognitionResults) = pass.n
       /\ \A k \in 1..pass.n :
             (recognitionResults[k].name = Unknown)
                <=> (\A i \in 1..Len(pass.faces) : pass.dist[k][i] >= Threshold)

C17_MatchedAndUnmatched ==
    /\ last = "detectAllFacesResolve"
    /\ Len(recognitionHistory) = 2
    /\ recognitionHistory[1].name = Unknown
    /\ recognitionHistory[2].name # Unknown
    /\ pass.n = 1 /\ Len(pass.faces) = 2

\* C18: a matched result names the identity of minimum distance, the earliest
\* enrolled one when several are at the minimum.  The gallery is ordered by
\* created_at descending, so the earliest enrolled of them is the last one.
C18_NearestEarliestEnrolled ==
    LET EarliestNearest(ds) ==
           CHOOSE i \in 1..Len(ds) :
              \A j \in 1..Len(ds) : ds[i] < ds[j] \/ (ds[i] = ds[j] /\ i >= j)
    IN last = "detectAllFacesResolve" =>
       \A k \in 1..pass.n :
          recognitionResults[k].name # Unknown =>
             recognitionResults[k].name = pass.faces[EarliestNearest(pass.dist[k])]

C18_TieResolvedToNewest ==
    /\ last = "detectAllFacesResolve"
    /\ pass.n = 1 /\ Len(pass.faces) = 2
    /\ pass.dist[1][1] = pass.dist[1][2]
    /\ recognitionResults[1].name = pass.faces[1]

\* C19: two passes over the same number of faces and the same gallery
\* produce the same results.
C19_MatchingDeterministic ==
    [][(/\ last' = "detectAllFacesResolve"
        /\ pass # NoPass
        /\ pass'.faces = pass.faces
        /\ pass'.n = pass.n)
       => recognitionResults' = recognitionResults]_vars

C19_SameInputsTwice ==
    /\ last = "detectAllFacesResolve"
    /\ pass.n = 1 /\ pass.faces # <<>>
    /\ Len(recognitionHistory) = 2
    /\ recognitionHistory[1] # recognitionHistory[2]

\* C20 as stated: confidence is a function of distance only, lies in [0,100],
\* and is strictly decreasing in distance.  The pairs <<distance, confidence>>
\* compared are those of a pass and of the pass before it: the minimum of the
\* distances drawn for a face, and the confidence of its result.
C20_StrictlyDecreasing ==
    [][LET MinOf(ds) == CHOOSE d \in {ds[i] : i \in 1..Len(ds)} :
                           \A i \in 1..Len(ds) : d <= ds[i]
           Observed(p, rs) ==
              IF p.n < 1 \/ p.faces = <<>> THEN {}
              ELSE {<<MinOf(p.dist[k]), rs[k].confidence>> : k \in 1..p.n}
           obs == Observed(pass, recognitionResults)
                  \cup Observed(pass', recognitionResults')
       IN \A a \in obs : \A b \in obs :
             /\ a[2] >= 0 /\ a[2] <= 100
             /\ a[1] = b[1] => a[2] = b[2]
             /\ a[1] < b[1] => a[2] > b[2]]_vars

\* C20 as amended: confidence is a function of distance only, lies in
\* [0,100], never increases with distance, is strictly decreasing among the
\* distances below the threshold and is 0 from the threshold on.
C20_DecreasingBelowThreshold ==
    [][LET MinOf(ds) == CHOOSE d \in {ds[i] : i \in 1..Len(ds)} :
                           \A i \in 1..Len(ds) : d <= ds[i]
           Observed(p, rs) ==
              IF p.n < 1 \/ p.faces = <<>> THEN {}
              ELSE {<<MinOf(p.dist[k]), rs[k].confidence>> : k \in 1..p.n}
           obs == Observed(pass, recognitionResults)
                  \cup Observed(pass', recognitionResults')
       IN \A a \in obs : \A b \in obs :
             /\ a[2] >= 0 /\ a[2] <= 100
             /\ a[1] = b[1] => a[2] = b[2]
             /\ a[1] < b[1] => a[2] >= b[2]
             /\ (a[1] < b[1] /\ a[1] < Threshold) => a[2] > b[2]
             /\ a[1] >= Threshold => a[2] = 0]_vars

C20_TwoMatchedConfidences ==
    /\ last = "detectAllFacesResolve"
    /\ Len(recognitionHistory) = 2
    /\ recognitionHistory[1].confidence > recognitionHistory[2].confidence
    /\ recognitionHistory[2].confidence > 0

\* C21: with the gallery of the one identity Alice and a face at distance 0.2
\* from her, the result names Alice with confidence (1 - 0.2/0.6) * 100, that
\* is confidence * 0.6 = (0.6 - 0.2) * 100.
C21_ConfidenceNormalisedByThreshold ==
    (/\ last = "detectAllFacesResolve"
     /\ pass.faces = <<"Alice">> /\ pass.n = 1
     /\ pass.dist[1][1] = 20)
    => /\ recognitionResults[1].name = "Alice"
       /\ recognitionResults[1].confidence * 60 = (60 - 20) * 100

C21_AliceAtTwentyHundredths ==
    /\ last = "detectAllFacesResolve"
    /\ pass.faces = <<"Alice">> /\ pass.n = 1
    /\ pass.dist[1][1] = 20
    /\ recognitionResults[1] = [name |-> "Alice", confidence |-> 80]

\* C22: a pass whose detection returned no face publishes the empty result
\* list and is counted as a frame of the window: frameCount grows by one, or
\* the window is flushed and reset, and the accuracy reported is 0.
C22_EmptyFrameRecorded ==
    [][(last' = "detectAllFacesResolve" /\ pass'.n = 0) =>
          /\ recognitionResults' = <<>>
          /\ \/ frameCount' = frameCount + 1
             \/ (frameCount' = 0 /\ lastFrameTime' = now)
          /\ statistics'.recognitionAccuracy[1] = 0]_vars

C22_EmptyFrameAfterMatch ==
    /\ last = "detectAllFacesResolve"
    /\ pass.n = 0
    /\ recognitionResults = <<>>
    /\ frameCount = 0
    /\ statistics.recognitionAccuracy[1] > 0

\* C23: totalRecognitions never decreases, and after a flush it is the number
\* of matched results of all the frames recorded so far (recognitionHistory
\* holds them all while fewer than 100 results were produced).
C23_LifetimeCounterCountsAllFrames ==
    [][/\ statistics'.totalRecognitions >= statistics.totalRecognitions
       /\ (last' = "detectAllFacesResolve" /\ lastFrameTime' # lastFrameTime)
             => statistics'.totalRecognitions = CountMatched(recognitionHistory')]_vars

C23_MatchBeforeFlushLost ==
    /\ last = "detectAllFacesResolve"
    /\ frameCount = 0 /\ lastFrameTime = now /\ now > 0
    /\ Len(recognitionHistory) = 2
    /\ CountMatched(recognitionHistory) = 2
    /\ statistics.totalRecognitions = 1

\* C24: at the flush of the first window, recognitionAccuracy is the share of
\* matched results among all the results of the frames of the window, in
\* percent.
C24_AccuracyOverWindow ==
    [][(/\ last' = "detectAllFacesResolve"
        /\ lastFrameTime = 0 /\ lastFrameTime' # lastFrameTime)
       => statistics'.recognitionAccuracy[1] * Len(recognitionHistory')
             = CountMatched(recognitionHistory') * 100
                  * statistics'.recognitionAccuracy[2]]_vars

C24_AccuracyOfLastFrameOnly ==
    /\ last = "detectAllFacesResolve"
    /\ frameCount = 0 /\ lastFrameTime = now /\ now > 0
    /\ Len(recognitionHistory) = 2
    /\ CountMatched(recognitionHistory) = 1
    /\ statistics.recognitionAccuracy = Ratio(100, 1)

C27_ClosedSocketDoesNotStall ==
    [][(/\ last' = "detectAllFacesResolve"
        /\ pass'.n > 0
        /\ ~WsOpen)
       => /\ wsSent' = wsSent
          /\ Len(recognitionResults') = pass'.n
          /\ Len(recognitionHistory') = Len(recognitionHistory) + pass'.n
          /\ (frameCount' = frameCount + 1 \/ lastFrameTime' = now)]_vars

C27_PublishedWhileClosed ==
    /\ last = "detectAllFacesResolve"
    /\ sockets[wsRef] = "closed"
    /\ wsSent = 0
    /\ Len(recognitionHistory) = 2
    /\ inflight = {}

\* C29: against the empty gallery every detected face is reported as
\* 'Unknown Person' with confidence 0; against a gallery of one identity a
\* face whose distance to it is below the threshold is matched to it.
C29_EmptyAndSingletonGallery ==
    last = "detectAllFacesResolve" =>
       /\ Len(recognitionResults) = pass.n
       /\ pass.faces = <<>> =>
             \A k \in 1..pass.n :
                recognitionResults[k] = [name |-> Unknown, confidence |-> 0]
       /\ Len(pass.faces) = 1 =>
             \A k \in 1..pass.n :
                pass.dist[k][1] < Threshold
                   => recognitionResults[k].name = pass.faces[1]

C29_UnknownThenAlice ==
    /\ last = "detectAllFacesResolve"
    /\ pass.faces = <<"Alice">> /\ pass.n = 1
    /\ Len(recognitionHistory) = 2
    /\ recognitionHistory[1].name = "Alice"
    /\ recognitionHistory[2] = [name |-> Unknown, confidence |-> 0]

\* C26: recognitionHistory holds the most recent results, newest first, up to
\* 100: a pass puts its results in front, the length grows by their number up
\* to 100 and never exceeds it, and what is dropped is dropped from the old
\* end, only when 100 results are retained.
C26_HistoryKeepsNewestHundred ==
    [][(last' = "detectAllFacesResolve" /\ pass'.n > 0) =>
          LET all == recognitionResults' \o recognitionHistory
              kept == Len(recognitionHistory')
          IN /\ kept = (IF Len(all) <= 100 THEN Len(all) ELSE 100)
             /\ \A k \in 1..kept : recognitionHistory'[k] = all[k]
             /\ Len(recognitionResults') = pass'.n]_vars

C26_OldestDropped ==
    /\ last = "detectAllFacesResolve"
    /\ Len(recognitionHistory) = 100
    /\ recognitionHistory[1].name # Unknown
    /\ recognitionHistory[2].name # Unknown
    /\ recognitionHistory[3].name = Unknown

\* C28: once the cleanup has run, no tick timer is armed, no media stream is
\* live, and no socket is open, connecting or about to be reconnected.
C28_ReleasedOnTeardown ==
    ~mounted =>
       /\ timers = {}
       /\ \A s \in 1..MaxStreams : streams[s] # "live"
       /\ \A k \in 1..MaxSockets : sockets[k] \notin {"open", "connecting"}
       /\ reconnects = 0

C28_ReconnectedAfterTeardown ==
    /\ ~mounted
    /\ last = "connectWebSocket"
    /\ sockets[wsRef] = "connecting"
    /\ \E s \in 1..MaxStreams : streams[s] = "stopped"

\* C30: at most one socket is open or connecting at any time, and it is the
\* one wsRef holds.
C30_SingleLiveSocket ==
    \A k \in 1..MaxSockets :
       sockets[k] \in {"open", "connecting"} => wsRef = k

C30_OrphanedSocket ==
    /\ sockets[wsRef] \in {"open", "connecting"}
    /\ \E k \in 1..MaxSockets :
          k # wsRef /\ sockets[k] \in {"open", "connecting"}
    /\ last = "connectWebSocket"

\* C31: while the component is shown, wsStatus is 'connected' only if the
\* socket wsRef holds is open, and the close event of another socket does not
\* set wsStatus to 'disconnected' while the socket wsRef holds is open.
C31_StatusAgreesWithSocket ==
    [][/\ (mounted' /\ wsStatus' = "connected") => WsOpen'
       /\ (mounted /\ WsOpen /\ WsOpen' /\ last' = "wsOnClose")
             => wsStatus' # "disconnected"]_vars

C31_DisconnectedWhileOpen ==
    /\ mounted
    /\ WsOpen
    /\ wsStatus = "disconnected"
    /\ last = "wsOnClose"

\* C32: once the camera is shown as inactive and every acquisition has
\* completed, no acquired stream has live tracks.
C32_NoLiveStreamWhileInactive ==
    (~isCameraActive /\ \A s \in 1..MaxStreams : streams[s] # "pending")
       => \A s \in 1..MaxStreams : streams[s] # "live"

C32_UntrackedStreamLive ==
    /\ last = "stopCamera"
    /\ ~isCameraActive
    /\ streamRef = 0
    /\ \E s \in 1..MaxStreams : streams[s] = "live"
    /\ \E s \in 1..MaxStreams : streams[s] = "stopped"

\* C34: the statistics window starts when recognition starts: a successful
\* start_recognition sets the window start to the current time and the frame
\* count to 0, so that the first flush divides the frames of this run by the
\* time of this run.
C34_WindowStartsWithRecognition ==
    [][last' = "startRecognition" =>
          /\ lastFrameTime' = now
          /\ frameCount' = 0]_vars

C34_StartedLongAfterMount ==
    /\ last = "startRecognition"
    /\ isRecognitionActive
    /\ now = WindowMs
    /\ lastFrameTime = 0

\* C39: the current tab is always one of 'registration', 'recognition' and
\* 'chat'; a key press of 1, 2 or 3 with Ctrl or Meta held selects the
\* respective tab, any other key press leaves the current tab unchanged.
C39_TabFollowsShortcuts ==
    /\ currentTab \in TabValues
    /\ [][/\ currentTab' \in TabValues
          /\ last' = "Index.handleKeyPress" =>
                LET e == keydown'
                    held == e.ctrlKey \/ e.metaKey
                IN  /\ (held /\ e.key = "1") => currentTab' = "registration"
                    /\ (held /\ e.key = "2") => currentTab' = "recognition"
                    /\ (held /\ e.key = "3") => currentTab' = "chat"
                    /\ ~(held /\ e.key \in {"1", "2", "3"})
                          => currentTab' = currentTab]_vars

C39_MetaThreeSelectsChat ==
    /\ last = "Index.handleKeyPress"
    /\ keydown.key = "3" /\ keydown.metaKey /\ ~keydown.ctrlKey
    /\ currentTab = "chat"

\* C33: in FaceRegistration, when startCamera's camera acquisition succeeds
\* the camera becomes active (the stream is stored in streamRef and
\* isCameraActive becomes true), so that a later stopCamera stops the
\* acquired stream: no stream is live once stopCamera has run.
C33_AcquiredCameraBecomesActive ==
    [][/\ last' = "FaceRegistration.getUserMediaResolve" =>
            /\ faceRegistration'.isCameraActive
            /\ faceRegistration'.streamRef # 0
            /\ faceRegistration'.streams[faceRegistration'.streamRef] = "live"
       /\ last' = "FaceRegistration.stopCamera" =>
            \A s \in 1..MaxCameraCalls : faceRegistration'.streams[s] # "live"]_vars

C33_AcquiredButInactive ==
    /\ last = "FaceRegistration.getUserMediaResolve"
    /\ ~faceRegistration.isCameraActive
    /\ faceRegistration.streamRef = 0
    /\ \E s \in 1..MaxCameraCalls : faceRegistration.streams[s] = "live"

C35_TypingTracksPendingQueries ==
    [][LET after == chatInterface'
       IN  /\ (\E i \in DOMAIN after.messages : after.messages[i].isLoading)
                => after.isTyping
           /\ (chatInterface.isTyping /\ ~after.isTyping)
                => after.sends = {}]_vars

C35_LoadingWhileNotTyping ==
    /\ last = "ChatInterface.sendResolve"
    /\ ~chatInterface.isTyping
    /\ chatInterface.sends # {}
    /\ \E i \in DOMAIN chatInterface.messages : chatInterface.messages[i].isLoading

\* C36: each non-blank send appends exactly one user message and one loading
\* message; message ids are unique; an answer changes only the loading message
\* of its own send (the n-th send's loading message is message 2n + 1); a
\* blank or whitespace-only send leaves the message list unchanged.
C36_AnswerReplacesOwnLoadingMessage ==
    [][LET before == chatInterface
           after == chatInterface'
           sent == after.sendSeq = before.sendSeq + 1
           answered == before.sends \ after.sends
       IN  /\ sent =>
                /\ Len(after.messages) = Len(before.messages) + 2
                /\ SubSeq(after.messages, 1, Len(before.messages)) = before.messages
                /\ after.messages[Len(after.messages) - 1].type = "user"
                /\ after.messages[Len(after.messages)].isLoading
           /\ (last' \in {"ChatInterface.sendButton", "ChatInterface.handleKeyPress"}
                 /\ trim(before.inputMessage) = <<>>)
                => after.messages = before.messages
           /\ \A i, j \in DOMAIN after.messages :
                i # j => after.messages[i].id # after.messages[j].id
           /\ \A c \in answered : \A i \in DOMAIN before.messages :
                i # 2 * c.n + 1 => after.messages[i] = before.messages[i]]_vars

C36_UserMessageOverwritten ==
    /\ last = "ChatInterface.sendResolve"
    /\ \E i \in DOMAIN chatInterface.messages :
         /\ chatInterface.messages[i].type = "user"
         /\ chatInterface.messages[i].content[1] = "answer"

\* C37: once all registration fetches have completed, registrationData holds
\* the result of the most recently started fetch (if that one succeeded); a
\* failed fetch leaves registrationData unchanged.
C37_LatestFetchWins ==
    [][LET after == chatInterface'
       IN  /\ (after.fetches = {} /\ after.fetchSeq \notin after.failed)
                => after.dataOf = after.fetchSeq
           /\ last' = "ChatInterface.fetchReject"
                => /\ after.registrationData = chatInterface.registrationData
                   /\ after.dataOf = chatInterface.dataOf]_vars

C37_OlderFetchWon ==
    /\ last = "ChatInterface.fetchResolve"
    /\ chatInterface.fetches = {}
    /\ chatInterface.failed = {}
    /\ chatInterface.fetchSeq = 2
    /\ chatInterface.dataOf = 1
    /\ chatInterface.registrationData = 0
    /\ chatInterface.db = 1

====
